---------------------------- MODULE Spec2Model ----------------------------
(***************************************************************************)
(* tools/compile_shaders.py: locate glslc.exe (find_glslc), then compile   *)
(* every shader source of ../shaders with it (main, compile_shader).       *)
(*                                                                         *)
(* The state is the part of the machine the script reads and writes (the   *)
(* search path, the VULKAN_SDK variable, the SDK install root, the shader  *)
(* directory), the script's own position and locals, its standard output,  *)
(* its child processes and its exit status.  File names are sequences of   *)
(* tokens ("a", ".", "vert") so that suffix extraction, lower-casing and   *)
(* appending ".spv" are computed, not assumed.                             *)
(***************************************************************************)
EXTENDS Naturals, Sequences, FiniteSets

\* -------------------------------------------------------------- bounds
\* Largest number of entries the shader directory holds before the first run.
MaxEntries == 3
\* Largest number of version subdirectories under C:/VulkanSDK.
MaxVersions == 2

\* Python's None, and a value that is present: an optional value is a
\* sequence of length 0 or 1.
None == <<>>
Some(x) == <<x>>

\* ------------------------------------------------------- file names
Dot == "."

\* str.lower() on the tokens of the model.
LowerTok(t) ==
    CASE t = "VERT" -> "vert"
      [] t = "Frag" -> "frag"
      [] t = "SPV"  -> "spv"
      [] OTHER      -> t

Lower(s) == [i \in 1..Len(s) |-> LowerTok(s[i])]

\* str.rfind('.') as a 1-based index, 0 when there is no dot.
RFindDot(name) ==
    LET dots == {i \in 1..Len(name) : name[i] = Dot}
    IN  IF dots = {} THEN 0 ELSE CHOOSE i \in dots : \A j \in dots : j <= i

\* PurePath.suffix: the text from the last dot on, unless that dot is the
\* first or the last character of the name.
Suffix(name) ==
    LET i == RFindDot(name)
    IN  IF 1 < i /\ i < Len(name) THEN SubSeq(name, i, Len(name)) ELSE <<>>

\* PurePath.stem: the name without its suffix.
Stem(name) == SubSeq(name, 1, Len(name) - Len(Suffix(name)))

\* Mutant of SpvName: .spv goes in before the suffix (a.vert -> a.spv.vert).
SpvName_BeforeSuffix(name) == Stem(name) \o <<Dot, "spv">> \o Suffix(name)

\* shader.name + ".spv"
SpvName(name) == name \o <<Dot, "spv">>

\* dir / name
Join(dir, name) == [dir |-> dir, name |-> name]

SHADER_DIR == "../shaders"
OUT_DIR == "../shaders"

shader_exts ==
    { <<Dot, "vert">>, <<Dot, "frag">>, <<Dot, "comp">>, <<Dot, "geom">>,
      <<Dot, "tesc">>, <<Dot, "tese">>, <<Dot, "mesh">>, <<Dot, "task">>,
      <<Dot, "rgen">>, <<Dot, "rchit">>, <<Dot, "rmiss">> }

\* Mutant of IsShader: the suffix is compared as it is written.
IsShader_CaseSensitive(name) == Suffix(name) \in shader_exts

\* The test of the loop body: shader.suffix.lower() in shader_exts
IsShader(name) == Lower(Suffix(name)) \in shader_exts

\* The names a shader directory of the model is drawn from.  CoreNames
\* occur in every combination of up to MaxEntries names, SoloNames (the
\* other stages, which the script treats alike) as a directory's only entry.
CoreNames ==
    { <<"a", Dot, "vert">>,
      <<"b", Dot, "frag">>,
      <<"k", Dot, "VERT">>,                 \* upper-case suffix
      <<"readme", Dot, "txt">>,             \* not a shader
      <<Dot, "vert">>,                      \* a dot file: no suffix
      <<"a", Dot, "vert", Dot, "spv">>,     \* an output left by an earlier build
      <<"x", Dot, "spv", Dot, "Frag">> }    \* a source with .spv inside its name

SoloNames ==
    { <<"s", Dot, "comp">>, <<"s", Dot, "geom">>, <<"s", Dot, "tesc">>,
      <<"s", Dot, "tese">>, <<"s", Dot, "mesh">>, <<"s", Dot, "task">>,
      <<"s", Dot, "rgen">>, <<"s", Dot, "rchit">>, <<"s", Dot, "rmiss">>,
      <<"vert">>,                           \* no dot at all
      <<"s", Dot, "vert", Dot>> }           \* the last dot ends the name

Directories ==
    {S \in SUBSET CoreNames : Cardinality(S) <= MaxEntries}
        \cup {{n} : n \in SoloNames}

\* The directory of the end-to-end scenario: two shaders and a text file.
Scenario == { <<"a", Dot, "vert">>, <<"b", Dot, "frag">>, <<"readme", Dot, "txt">> }

\* -------------------------------------------------------- the machine
WhichHit == <<"C:/tools", "glslc.exe">>
SdkValue == "D:/Vulkan"
DefaultSdkDir == "C:/VulkanSDK"
Versions == 1..MaxVersions

\* Path(vulkan_sdk) / "Bin" / "glslc.exe"
EnvGuess(v) == <<v, "Bin", "glslc.exe">>
\* p / "Bin" / "glslc.exe" for p = default_sdk_dir / version
SubGuess(ver) == <<DefaultSdkDir, ver, "Bin", "glslc.exe">>

\* What one compiler child can end with: exit code and captured stderr.
ChildResults ==
    { [rc |-> 0, err |-> ""], [rc |-> 0, err |-> "warning"],
      [rc |-> 1, err |-> "error"], [rc |-> 2, err |-> "error"] }

VARIABLES
    which,      \* what shutil.which("glslc.exe") returns: None or Some(path)
    environ,    \* VULKAN_SDK: None (unset), Some("") or Some(directory)
    present,    \* the candidate glslc.exe paths that exist on disk
    sdkRoot,    \* None when C:/VulkanSDK is absent, else Some(its set of entries)
    dirs,       \* the directories among SHADER_DIR, OUT_DIR that exist
    files,      \* the entries of each of those directories
    pc,         \* position of the script
    glslc,      \* find_glslc's result: None or Some(path)
    probes,     \* the look-ups find_glslc has made, in order
    todo,       \* entries a running enumeration has still to yield
    calls,      \* the argument vectors given to subprocess.run in this run
    running,    \* compiler children in flight
    result,     \* None, or Some(the completed child's result) awaiting its report
    out,        \* lines printed in this run
    exitStatus, \* None while the process runs, then Some(exit status)
    written,    \* every path a compiler child has written, over all runs
    made,       \* every directory a mkdir of the script has created
    prev        \* None in the first run, else Some(summary of the previous run)

env == <<which, environ, present, sdkRoot>>
fsys == <<dirs, files>>
loc == <<glslc, probes, todo>>
vars == <<which, environ, present, sdkRoot, dirs, files, pc, glslc, probes,
          todo, calls, running, result, out, exitStatus, written, made,
          prev>>

DirPaths == {SHADER_DIR, OUT_DIR}

\* The script at its first line, on a machine that has run nothing yet.
Started ==
    /\ pc = "which"
    /\ glslc = None
    /\ probes = <<>>
    /\ todo = {}
    /\ calls = <<>>
    /\ running = {}
    /\ result = None
    /\ out = <<>>
    /\ exitStatus = None
    /\ written = {}
    /\ made = {}
    /\ prev = None

\* Every machine of the bounds as far as the compiler's places go: a version
\* subdirectory holds Bin/glslc.exe only if it is there.
AnyPlaces ==
    /\ which \in {None, Some(WhichHit)}
    /\ environ \in {None, Some(""), Some(SdkValue)}
    /\ sdkRoot \in {None} \cup {Some(S) : S \in SUBSET Versions}
    /\ present \in SUBSET ({EnvGuess(SdkValue)} \cup {SubGuess(v) : v \in Versions})
    /\ \A v \in Versions :
          SubGuess(v) \in present => sdkRoot # None /\ v \in sdkRoot[1]

\* Each of the three places either holds the compiler or is not there.
PlainPlaces ==
    /\ which \in {None, Some(WhichHit)}
    /\ environ \in {None, Some(SdkValue)}
    /\ sdkRoot \in {None, Some({1})}
    /\ present = (IF environ = None THEN {} ELSE {EnvGuess(SdkValue)})
                    \cup (IF sdkRoot = None THEN {} ELSE {SubGuess(1)})

\* The shader directory is absent, or is there with the entries S.
ShaderDir(S) ==
    /\ dirs \in SUBSET DirPaths
    /\ files = [d \in DirPaths |-> IF d \in dirs THEN S ELSE {}]

Init ==
    /\ PlainPlaces
    /\ \E S \in Directories : ShaderDir(S)
    /\ Started

LocatorInit ==
    /\ AnyPlaces
    /\ \E S \in {{}, Scenario} : ShaderDir(S)
    /\ Started

\* --------------------------------------------------------- find_glslc
\* A look-up find_glslc makes: what it asks, and of which version
\* subdirectory (0 when of none).
Probe(kind) == <<kind, 0>>

\* Mutant of CheckPath: the hit is kept but the function does not return.
CheckPath_NoReturn ==
    /\ pc = "which"
    /\ probes' = Append(probes, Probe("which"))
    /\ glslc' = which
    /\ pc' = "getenv"
    /\ UNCHANGED <<env, fsys, todo, calls, running, result, out, exitStatus,
                   written, made, prev>>

\* 1. shutil.which("glslc.exe")
CheckPath ==
    /\ pc = "which"
    /\ probes' = Append(probes, Probe("which"))
    /\ IF which # None
       THEN glslc' = which /\ pc' = "main"
       ELSE glslc' = glslc /\ pc' = "getenv"
    /\ UNCHANGED <<env, fsys, todo, calls, running, result, out, exitStatus,
                   written, made, prev>>

\* 2. os.environ.get("VULKAN_SDK"), then guess.exists()
CheckEnv ==
    /\ pc = "getenv"
    /\ IF environ # None /\ environ[1] # ""
       THEN /\ probes' = probes \o <<Probe("getenv"), Probe("exists-env")>>
            /\ IF EnvGuess(environ[1]) \in present
               THEN glslc' = Some(EnvGuess(environ[1])) /\ pc' = "main"
               ELSE glslc' = glslc /\ pc' = "root"
       ELSE /\ probes' = Append(probes, Probe("getenv"))
            /\ glslc' = glslc
            /\ pc' = "root"
    /\ UNCHANGED <<env, fsys, todo, calls, running, result, out, exitStatus,
                   written, made, prev>>

\* 3. default_sdk_dir.exists(), and the start of iterdir()
CheckRoot ==
    /\ pc = "root"
    /\ IF sdkRoot # None
       THEN /\ probes' = probes \o <<Probe("exists-root"), Probe("iterdir")>>
            /\ todo' = sdkRoot[1]
            /\ pc' = "iter"
       ELSE /\ probes' = Append(probes, Probe("exists-root"))
            /\ todo' = todo
            /\ pc' = "main"
    /\ UNCHANGED <<env, fsys, glslc, calls, running, result, out, exitStatus,
                   written, made, prev>>

\* One turn of the loop over default_sdk_dir.iterdir(), in the order the
\* file system yields; falling out of the loop returns None.
IterVersion ==
    /\ pc = "iter"
    /\ IF todo = {}
       THEN /\ pc' = "main"
            /\ UNCHANGED <<glslc, probes, todo>>
       ELSE \E p \in todo :
            /\ probes' = Append(probes, <<"exists-sub", p>>)
            /\ IF SubGuess(p) \in present
               THEN glslc' = Some(SubGuess(p)) /\ todo' = {} /\ pc' = "main"
               ELSE glslc' = glslc /\ todo' = todo \ {p} /\ pc' = "iter"
    /\ UNCHANGED <<env, fsys, calls, running, result, out, exitStatus,
                   written, made, prev>>

\* ----------------------------------------------------------------- main
\* Mutant of Mkdir: exist_ok is ignored, as with a plain mkdir().
Mkdir_Strict(path, exist_ok) ==
    [raised |-> path \in dirs, dirs |-> dirs \cup {path}]

\* Path.mkdir(exist_ok=...): the directories afterwards, and whether the
\* call raised FileExistsError.
Mkdir(path, exist_ok) ==
    [raised |-> path \in dirs /\ ~exist_ok, dirs |-> dirs \cup {path}]

\* Path.glob("*"): the entries directly inside the directory, none when it
\* does not exist.
Glob(existing, path) == IF path \in existing THEN files[path] ELSE {}

\* Mutant of MainNotFound: the messages are printed, the status is 0.
MainNotFound_Status0 ==
    /\ pc = "main"
    /\ glslc = None
    /\ out' = out \o <<[t |-> "ERROR"], [t |-> "hint"]>>
    /\ exitStatus' = Some(0)
    /\ pc' = "exit"
    /\ UNCHANGED <<env, fsys, loc, calls, running, result, written, made, prev>>

\* main after find_glslc returned: the not-found exit, or the lines up to
\* the start of the loop.
MainNotFound ==
    /\ pc = "main"
    /\ glslc = None
    /\ out' = out \o <<[t |-> "ERROR"], [t |-> "hint"]>>
    /\ exitStatus' = Some(1)
    /\ pc' = "exit"
    /\ UNCHANGED <<env, fsys, loc, calls, running, result, written, made, prev>>

MainSetup ==
    /\ pc = "main"
    /\ glslc # None
    /\ out' = Append(out, [t |-> "Using", path |-> glslc[1]])
    /\ LET mk == Mkdir(OUT_DIR, TRUE)
       IN  IF mk.raised
           THEN /\ exitStatus' = Some(1)
                /\ pc' = "exit"
                /\ UNCHANGED <<dirs, made, todo>>
           ELSE /\ dirs' = mk.dirs
                /\ made' = made \cup (mk.dirs \ dirs)
                /\ todo' = Glob(mk.dirs, SHADER_DIR)
                /\ pc' = "loop"
                /\ UNCHANGED exitStatus
    /\ UNCHANGED <<env, files, glslc, probes, calls, running, result, written,
                   prev>>

\* compile_shader's argument vector
Cmd(glslc_path, input_path, output_path) ==
    <<glslc_path, input_path, "-o", output_path>>

\* Mutant of OutPath: the suffix is replaced, as by with_suffix(".spv").
OutPath_WithSuffix(name) == Join(OUT_DIR, Stem(name) \o <<Dot, "spv">>)

\* The output path main builds for an entry
OutPath(name) == Join(OUT_DIR, SpvName(name))

\* Mutant of LoopCompile: the child is started and not waited for.
LoopCompile_NoWait ==
    /\ pc = "loop"
    /\ \E shader \in todo :
          /\ Lower(Suffix(shader)) \in shader_exts
          /\ todo' = todo \ {shader}
          /\ LET cmd == <<glslc[1], Join(SHADER_DIR, shader),
                          "-o", Join(OUT_DIR, shader \o <<Dot, "spv">>)>>
             IN  /\ calls' = Append(calls, cmd)
                 /\ running' = running \cup {cmd}
    /\ pc' = "loop"
    /\ UNCHANGED <<env, fsys, glslc, probes, result, out, exitStatus, written,
                   made, prev>>

\* The loop runs on to the next entry that is a shader, in the order the
\* file system yields, passing over entries that are none; the shader is
\* handed to compile_shader, which starts the child and blocks.
LoopCompile ==
    /\ pc = "loop"
    /\ \E shader \in todo :
          /\ IsShader(shader)
          /\ todo' = todo \ {shader}
          /\ LET cmd == Cmd(glslc[1], Join(SHADER_DIR, shader), OutPath(shader))
             IN  /\ calls' = Append(calls, cmd)
                 /\ running' = running \cup {cmd}
    /\ pc' = "wait"
    /\ UNCHANGED <<env, fsys, glslc, probes, result, out, exitStatus, written,
                   made, prev>>

\* The child exits; subprocess.run returns its exit code and its stderr as
\* text.  The exit code is the compiler's to choose, anew at each
\* invocation.  By the compiler's command-line contract a child that exits
\* 0 has written the file named after -o, and one that fails has written
\* nothing.
ChildExit ==
    /\ pc = "wait"
    /\ \E cmd \in running, r \in ChildResults :
          /\ running' = running \ {cmd}
          /\ result' = Some([cmd |-> cmd, rc |-> r.rc, err |-> r.err])
          /\ IF r.rc = 0
             THEN /\ files' = [files EXCEPT ![cmd[4].dir] = @ \cup {cmd[4].name}]
                  /\ written' = written \cup {cmd[4]}
             ELSE UNCHANGED <<files, written>>
    /\ pc' = "report"
    /\ UNCHANGED <<env, dirs, loc, calls, out, exitStatus, made, prev>>

\* Mutant of ReportLines: text on stderr, not the exit code, means failure.
ReportLines_ByStderr(input_path, output_path, returncode, stderr) ==
    IF stderr # ""
    THEN << [t |-> "FAILED", input |-> input_path],
            [t |-> "stderr", text |-> stderr] >>
    ELSE << [t |-> "OK", input |-> input_path.name, output |-> output_path.name] >>

\* The lines compile_shader prints for a completed child.
ReportLines(input_path, output_path, returncode, stderr) ==
    IF returncode # 0
    THEN << [t |-> "FAILED", input |-> input_path],
            [t |-> "stderr", text |-> stderr] >>
    ELSE << [t |-> "OK", input |-> input_path.name, output |-> output_path.name] >>

\* Mutant of Report: a failed compile ends the script with status 1.
Report_ExitOnFailure ==
    /\ pc = "report"
    /\ LET r == result[1]
       IN  /\ out' = out \o (IF r.rc # 0
                              THEN << [t |-> "FAILED", input |-> r.cmd[2]],
                                      [t |-> "stderr", text |-> r.err] >>
                              ELSE << [t |-> "OK", input |-> r.cmd[2].name,
                                       output |-> r.cmd[4].name] >>)
           /\ IF r.rc # 0
              THEN pc' = "exit" /\ exitStatus' = Some(1)
              ELSE pc' = "loop" /\ exitStatus' = exitStatus
    /\ result' = None
    /\ UNCHANGED <<env, fsys, loc, calls, running, written, made, prev>>

Report ==
    /\ pc = "report"
    /\ LET r == result[1]
       IN  out' = out \o ReportLines(r.cmd[2], r.cmd[4], r.rc, r.err)
    /\ result' = None
    /\ pc' = "loop"
    /\ UNCHANGED <<env, fsys, loc, calls, running, exitStatus, written, made, prev>>

\* Mutant of Finish: the script ends without printing Done.
Finish_Silent ==
    /\ pc = "loop"
    /\ \A shader \in todo : Lower(Suffix(shader)) \notin shader_exts
    /\ todo' = {}
    /\ out' = out
    /\ exitStatus' = Some(0)
    /\ pc' = "exit"
    /\ UNCHANGED <<env, fsys, glslc, probes, calls, running, result, written,
                   made, prev>>

\* No entry that is a shader is left: the loop passes over the rest and
\* ends, print("Done."), and the script ends normally.
Finish ==
    /\ pc = "loop"
    /\ \A shader \in todo : ~IsShader(shader)
    /\ todo' = {}
    /\ out' = Append(out, [t |-> "Done"])
    /\ exitStatus' = Some(0)
    /\ pc' = "exit"
    /\ UNCHANGED <<env, fsys, glslc, probes, calls, running, result, written,
                   made, prev>>

\* The script is started again on the machine as the last run left it.
Rerun ==
    /\ pc = "exit"
    /\ prev' = Some([calls |-> {calls[i] : i \in 1..Len(calls)},
                     files |-> files, dirs |-> dirs, exitStatus |-> exitStatus])
    /\ pc' = "which"
    /\ glslc' = None
    /\ probes' = <<>>
    /\ todo' = {}
    /\ calls' = <<>>
    /\ result' = None
    /\ out' = <<>>
    /\ exitStatus' = None
    /\ UNCHANGED <<env, fsys, running, written, made>>

Step ==
    \/ CheckPath
    \/ CheckEnv
    \/ CheckRoot
    \/ IterVersion
    \/ MainNotFound
    \/ MainSetup
    \/ LoopCompile
    \/ Report
    \/ Finish

Next == Step \/ ChildExit \/ Rerun

Spec == Init /\ [][Next]_vars

\* The locator on every machine of the bounds.
LocatorSpec == LocatorInit /\ [][Next]_vars

\* One run of the script, which keeps running while it can and whose every
\* child exits.
OneRun == Step \/ ChildExit
FairSpec == Init /\ [][OneRun]_vars /\ WF_vars(Step) /\ WF_vars(ChildExit)

\* ------------------------------------------------------ the properties
LocatorPcs == {"which", "getenv", "root", "iter"}

\* find_glslc has returned to main.
Returned == pc \notin LocatorPcs

\* The three methods, read off the machine: would each yield an existing path?
ByPath == which # None
ByEnv == environ # None /\ environ[1] # "" /\ EnvGuess(environ[1]) \in present
ByRoot == sdkRoot # None /\ \E v \in sdkRoot[1] : SubGuess(v) \in present
NoneFound == ~ByPath /\ ~ByEnv /\ ~ByRoot

Lines(kind) == {i \in 1..Len(out) : out[i].t = kind}
Reports == Lines("OK") \cup Lines("FAILED")
CallsFor(name) == {i \in 1..Len(calls) : calls[i][2].name = name}
CallSet == {calls[i] : i \in 1..Len(calls)}

\* The eleven stage suffixes, and a name whose extension is one of them
\* whatever its case: the name ends in a dot and a stage word, and that
\* dot is not the name's first character.
StageWords ==
    {"vert", "frag", "comp", "geom", "tesc", "tese", "mesh", "task", "rgen",
     "rchit", "rmiss"}
HasStageExtension(name) ==
    /\ Len(name) >= 3
    /\ name[Len(name) - 1] = Dot
    /\ LowerTok(name[Len(name)]) \in StageWords

\* C1: find_glslc returns the result of the first of PATH lookup,
\* environment variable, default install root that yields an existing path;
\* after a method succeeds no later method is attempted (through PATH only
\* the PATH lookup is made; through the variable the install root is neither
\* tested nor enumerated; under the install root nothing is looked at after
\* the hit), and a method that fails falls through to the next one.
C1_FirstMethodWins ==
    Returned =>
        CASE ByPath ->
                /\ glslc = which
                /\ probes = <<Probe("which")>>
          [] ~ByPath /\ ByEnv ->
                /\ glslc = Some(EnvGuess(environ[1]))
                /\ probes = <<Probe("which"), Probe("getenv"), Probe("exists-env")>>
          [] ~ByPath /\ ~ByEnv /\ ByRoot ->
                /\ probes[1] = Probe("which")
                /\ probes[2] = Probe("getenv")
                /\ \E i \in 1..Len(probes) : probes[i] = Probe("iterdir")
                /\ \E v \in sdkRoot[1] :
                      /\ SubGuess(v) \in present
                      /\ glslc = Some(SubGuess(v))
                      /\ probes[Len(probes)] = <<"exists-sub", v>>
                /\ \A i \in 1..(Len(probes) - 1) :
                      probes[i][1] = "exists-sub"
                          => SubGuess(probes[i][2]) \notin present
          [] OTHER ->
                /\ glslc = None
                /\ probes[1] = Probe("which")
                /\ probes[2] = Probe("getenv")
                /\ \E i \in 1..Len(probes) : probes[i] = Probe("exists-root")
                /\ sdkRoot # None =>
                      \A v \in sdkRoot[1] :
                          \E i \in 1..Len(probes) : probes[i] = <<"exists-sub", v>>

\* Two methods would succeed, the variable and the install root, and the
\* earlier one's path was returned.
C1_Witness ==
    /\ Returned
    /\ ~ByPath /\ ByEnv /\ ByRoot
    /\ glslc = Some(EnvGuess(SdkValue))

\* C2: when no method yields an existing path find_glslc returns None and
\* main's next step ends the process with status 1; in such a run no compiler
\* is started, no directory is created or changed, the input directory is
\* not enumerated and neither the Using line nor Done is printed.
C2_NotFoundExits ==
    /\ [](NoneFound =>
            /\ Returned => glslc = None
            /\ pc \in LocatorPcs \cup {"main", "exit"}
            /\ pc = "exit" => exitStatus = Some(1)
            /\ calls = <<>> /\ running = {} /\ made = {} /\ written = {}
            /\ Lines("Using") = {} /\ Lines("Done") = {})
    /\ [][NoneFound =>
            /\ dirs' = dirs /\ files' = files
            /\ (pc = "main" => pc' = "exit" /\ exitStatus' = Some(1))]_vars

\* Nothing was found under an install root that is there, the run is over,
\* and the output directory is still absent.
C2_Witness ==
    /\ NoneFound
    /\ sdkRoot # None /\ sdkRoot[1] # {}
    /\ pc = "exit" /\ exitStatus = Some(1)
    /\ dirs = {}

\* C3: in one run the compiler is started exactly once for each entry of the
\* input directory whose extension is, whatever its case, one of the eleven
\* stage suffixes, and never for another entry or for anything else.
C3_OncePerShader ==
    /\ \A i \in 1..Len(calls) :
          /\ calls[i][2].dir = "../shaders"
          /\ calls[i][2].name \in files["../shaders"]
          /\ HasStageExtension(calls[i][2].name)
          /\ Cardinality(CallsFor(calls[i][2].name)) = 1
    /\ (pc = "exit" /\ exitStatus = Some(0)) =>
          \A n \in files["../shaders"] :
              Cardinality(CallsFor(n)) = IF HasStageExtension(n) THEN 1 ELSE 0

\* The run over a.vert, b.frag and readme.txt is over: two invocations.
C3_Witness ==
    /\ pc = "exit" /\ exitStatus = Some(0)
    /\ Scenario \subseteq files["../shaders"]
    /\ Len(calls) = 2
    /\ CallsFor(<<"readme", Dot, "txt">>) = {}

\* C4: a run in which the compiler was located ends with status 0 whatever
\* the children's exit codes were; a failed compile ends neither the loop nor
\* the process, and every shader of the directory has been compiled by the
\* end of the run.
C4_FailuresNotFatal ==
    /\ []((pc = "exit" /\ glslc # None) =>
            /\ exitStatus = Some(0)
            /\ \A n \in files["../shaders"] :
                  HasStageExtension(n) => CallsFor(n) # {})
    /\ [][(pc = "report" /\ result[1].rc # 0) =>
            pc' = "loop" /\ exitStatus' = None /\ todo' = todo]_vars

\* A run is over with status 0 in which a compile failed and a later one
\* succeeded.
C4_Witness ==
    /\ pc = "exit" /\ exitStatus = Some(0)
    /\ \E i \in Lines("FAILED"), j \in Lines("OK") : i < j

\* C5: every invocation is the executable followed by exactly three
\* arguments: the input path, -o, and the path in the output directory whose
\* file name is the input's whole file name followed by .spv.
C5_ArgumentVector ==
    \A i \in 1..Len(calls) :
        /\ Len(calls[i]) = 4
        /\ calls[i][1] = glslc[1]
        /\ calls[i][2].dir = "../shaders"
        /\ calls[i][3] = "-o"
        /\ calls[i][4].dir = "../shaders"
        /\ calls[i][4].name = calls[i][2].name \o <<".", "spv">>

\* a.vert was compiled to a.vert.spv, and k.VERT to k.VERT.spv.
C5_Witness ==
    /\ \E i \in 1..Len(calls) :
          /\ calls[i][2].name = <<"a", ".", "vert">>
          /\ calls[i][4].name = <<"a", ".", "vert", ".", "spv">>
    /\ \E i \in 1..Len(calls) :
          /\ calls[i][2].name = <<"k", ".", "VERT">>
          /\ calls[i][4].name = <<"k", ".", "VERT", ".", "spv">>

\* C6: each invocation gets exactly one report, which the exit code alone
\* decides: after exit code 0 an OK line with the input's and the output's
\* file names, after any other the FAILED line with the input path and then
\* the captured stderr text; either way the loop goes on.
C6_OneReportPerExit ==
    /\ [](Cardinality(Reports) = Len(calls) - Cardinality(running) - Len(result))
    /\ [][pc = "report" =>
            /\ pc' = "loop"
            /\ todo' = todo
            /\ LET r == result[1]
                   c == calls[Len(calls)]
               IN  /\ r.cmd = c
                   /\ out' = out \o
                        (IF r.rc = 0
                         THEN << [t |-> "OK", input |-> c[2].name,
                                  output |-> c[4].name] >>
                         ELSE << [t |-> "FAILED", input |-> c[2]],
                                 [t |-> "stderr", text |-> r.err] >>)]_vars

\* A child that exited 0 with text on stderr was reported OK, the failure
\* before it FAILED with its stderr text.
C6_Witness ==
    /\ pc = "report" /\ result[1].rc = 0 /\ result[1].err # ""
    /\ Len(out) = 3
    /\ out[2].t = "FAILED" /\ out[3] = [t |-> "stderr", text |-> "error"]

\* C7: at most one compiler child is in flight, and an invocation starts
\* only when no child is in flight and every earlier invocation has been
\* reported.
C7_Sequential ==
    /\ [](/\ Cardinality(running) <= 1
          /\ running # {} => result = None /\ Cardinality(Reports) = Len(calls) - 1)
    /\ [][calls' # calls /\ calls' # <<>> =>
            /\ running = {} /\ result = None
            /\ Cardinality(Reports) = Len(calls)
            /\ Len(calls') = Len(calls) + 1]_vars

\* The second child of a run is in flight, the first one reported.
C7_Witness ==
    /\ Len(calls) = 2
    /\ running = {calls[2]}
    /\ Cardinality(Reports) = 1

\* C8: main's step that leads to the loop leaves the output directory
\* existing without raising: an absent one is created, empty; one that is
\* there, from an earlier run or not, is left as it is with its entries.
\* The loop is reached through that step only.
C8_MkdirIdempotent ==
    /\ [](pc \in {"loop", "wait", "report"} => "../shaders" \in dirs)
    /\ [][(pc = "main" /\ glslc # None) =>
            /\ pc' = "loop" /\ exitStatus' = None
            /\ calls' = <<>>
            /\ dirs' = dirs \cup {"../shaders"}
            /\ files' = files
            /\ "../shaders" \in dirs => dirs' = dirs /\ made' = made
            /\ "../shaders" \notin dirs =>
                  files'["../shaders"] = {} /\ made' = made \cup {"../shaders"}]_vars

\* A later run is past the step, on the directory an earlier run created.
C8_Witness ==
    /\ prev # None
    /\ pc = "loop"
    /\ "../shaders" \in made
    /\ dirs = prev[1].dirs /\ files = prev[1].files

\* C9: once the compiler is located the run ends, given that every child
\* exits.  The Using line is printed once, as the first line and before any
\* invocation; Done is printed once, as the last line, when every shader has
\* been compiled and reported and no child is left, and nothing is invoked
\* after it.
C9_TerminatesInOrder ==
    /\ (pc = "main" /\ glslc # None) ~> (pc = "exit" /\ exitStatus = Some(0))
    /\ [](/\ Cardinality(Lines("Using")) <= 1
          /\ Cardinality(Lines("Done")) <= 1
          /\ calls # <<>> => Lines("Using") = {1}
          /\ (pc = "exit" /\ glslc # None) =>
                Lines("Using") = {1} /\ Lines("Done") = {Len(out)}
          /\ Lines("Done") # {} =>
                /\ Lines("Done") = {Len(out)}
                /\ pc = "exit" /\ running = {} /\ result = None
                /\ Cardinality(Reports) = Len(calls)
                /\ \A n \in files["../shaders"] :
                      HasStageExtension(n) => CallsFor(n) # {})
    /\ [][Lines("Done") # {} => calls' = calls /\ running' = running]_vars

\* A run over a directory without any shader is over: Using, then Done.
C9_Witness ==
    /\ pc = "exit"
    /\ files["../shaders"] # {}
    /\ calls = <<>>
    /\ Len(out) = 2 /\ out[1].t = "Using" /\ out[2].t = "Done"

\* C10 as stated: no file a child wrote is ever an input, and a run after
\* the first makes the same invocations as the run before it and ends with
\* as many files as that run ended with.
C10_StopsGrowingAfterFirstRun ==
    /\ \A i \in 1..Len(calls) : calls[i][2] \notin written
    /\ (prev # None /\ pc = "exit") =>
          /\ CallSet = prev[1].calls
          /\ Cardinality(files["../shaders"])
                = Cardinality(prev[1].files["../shaders"])

\* C10: no file a child wrote is ever an input, and a run after the first
\* makes the same invocations as the run before it; a file it adds is the
\* output <name>.spv of a shader <name> that was there when the run before
\* ended and whose output was missing then, so no run adds a file once every
\* shader has its output.
C10_OutputsNeverInputs ==
    /\ \A i \in 1..Len(calls) : calls[i][2] \notin written
    /\ written \subseteq {Join("../shaders", n \o <<".", "spv">>) : n \in files["../shaders"]}
    /\ (prev # None /\ pc = "exit") => CallSet = prev[1].calls
    /\ prev # None =>
          \A f \in files["../shaders"] \ prev[1].files["../shaders"] :
              \E n \in prev[1].files["../shaders"] :
                  HasStageExtension(n) /\ f = n \o <<".", "spv">>
    /\ (/\ prev # None
        /\ \A n \in prev[1].files["../shaders"] :
              HasStageExtension(n) => n \o <<".", "spv">> \in prev[1].files["../shaders"])
          => files = prev[1].files

\* A later run has compiled again and is over, and the directory, outputs
\* of the earlier run among its entries, has not grown.
C10_Witness ==
    /\ prev # None /\ pc = "exit"
    /\ calls # <<>>
    /\ written # {}
    /\ files = prev[1].files

=============================================================================
